---- MODULE Spec2Model ----
(***************************************************************************)
(* Model of infers-jsonschema (src/src/lib.rs): JSONSchema::infer maps a   *)
(* serde_json Value to a JSON Schema fragment.                             *)
(*                                                                         *)
(* A JSON Value is a record [kind, str, elems, members]; a schema fragment *)
(* (itself a serde_json object) is a record whose fields are the schema    *)
(* keywords, each an Option written as a sequence of length 0 or 1.        *)
(* serde_json::Map is the default BTreeMap-backed map: it iterates in key  *)
(* order, so an object is a key-sorted sequence of <<key, value>> pairs.   *)
(***************************************************************************)
EXTENDS Integers, Sequences, FiniteSets, TLC

VARIABLES input, detect_format, result

vars == <<input, detect_format, result>>

(***************************************************************************)
(* Bounds of the model.                                                    *)
(***************************************************************************)
MaxLen == 3

(* The program's fan-out threshold (array.len() > 8 takes par_iter). *)
ParThreshold == 8

(***************************************************************************)
(* Generic helpers.                                                        *)
(***************************************************************************)
Range(s) == {s[i] : i \in 1..Len(s)}

RECURSIVE Concat(_)
Concat(ss) == IF ss = <<>> THEN <<>> ELSE Head(ss) \o Concat(Tail(ss))

(* All sequences obtained by picking one element from each set of a sequence of sets. *)
RECURSIVE Choices(_)
Choices(sets) ==
    IF sets = <<>> THEN {<<>>}
    ELSE {<<x>> \o rest : x \in Head(sets), rest \in Choices(Tail(sets))}

(* All orderings of a finite set, as sequences without repetition. *)
RECURSIVE Orderings(_)
Orderings(S) ==
    IF S = {} THEN {<<>>}
    ELSE UNION {{<<x>> \o rest : rest \in Orderings(S \ {x})} : x \in S}

(* All rearrangements of a sequence. *)
Rearrangements(s) ==
    {[i \in 1..Len(s) |-> s[p[i]]] : p \in {q \in [1..Len(s) -> 1..Len(s)] : Range(q) = 1..Len(s)}}

(***************************************************************************)
(* serde_json::Value, the input.                                           *)
(***************************************************************************)
Value(kind, str, elems, members) ==
    [kind |-> kind, str |-> str, elems |-> elems, members |-> members]

Null == Value("null", "", <<>>, <<>>)
Bool(b) == Value("bool", b, <<>>, <<>>)
Number(n) == Value("number", n, <<>>, <<>>)
String(s) == Value("string", s, <<>>, <<>>)
Array(v) == Value("array", "", v, <<>>)
Object(map) == Value("object", "", <<>>, map)

(* Property names, in the order of String's Ord (the BTreeMap key order). *)
KeyOrder == <<"a", "b">>

Keys == Range(KeyOrder)

KeyIndex(k) == CHOOSE i \in 1..Len(KeyOrder) : KeyOrder[i] = k

(* A Map<String, Value> holding m[k] for k in ks: pairs in key order. *)
MapOf(ks, m) ==
    LET RECURSIVE build(_)
        build(i) == IF i > Len(KeyOrder) THEN <<>>
                    ELSE (IF KeyOrder[i] \in ks THEN <<<<KeyOrder[i], m[KeyOrder[i]]>>>> ELSE <<>>)
                         \o build(i + 1)
    IN build(1)

MapKeys(map) == {map[i][1] : i \in 1..Len(map)}

MapGet(map, k) == (CHOOSE i \in 1..Len(map) : map[i][1] = k)

(* Number::is_f64: the literal was parsed as a float. *)
FloatLiterals == {"1.35", "1.0"}

is_f64(number) == number \in FloatLiterals

(***************************************************************************)
(* String formats (infer_format).  A string literal of the model is read   *)
(* through its characters, and the three recognizers scan them as the      *)
(* parsers do.                                                             *)
(***************************************************************************)
StringLiterals ==
    {"", "Test", "1", "-5", "+7", "20200101", "2147483647", "2147483648",
     "2020-01-01", "2020-02-29", "2020-02-30", "2019-02-29",
     "2018-11-13T20:20:39+00:00", "2018-11-13T20:20:39Z",
     "2018-11-13T20:20:39.5Z", "2018-11-13T20:20:39", "2018-11-13T24:20:39Z"}

(* The characters of a string literal (str::as_bytes; all of them ASCII). *)
Chars(string) ==
    CASE string = "" -> <<>>
      [] string = "Test" -> <<"T", "e", "s", "t">>
      [] string = "1" -> <<"1">>
      [] string = "-5" -> <<"-", "5">>
      [] string = "+7" -> <<"+", "7">>
      [] string = "20200101" -> <<"2", "0", "2", "0", "0", "1", "0", "1">>
      [] string = "2147483647" ->
           <<"2", "1", "4", "7", "4",
             "8", "3", "6", "4", "7">>
      [] string = "2147483648" ->
           <<"2", "1", "4", "7", "4",
             "8", "3", "6", "4", "8">>
      [] string = "2020-01-01" ->
           <<"2", "0", "2", "0", "-",
             "0", "1", "-", "0", "1">>
      [] string = "2020-02-29" ->
           <<"2", "0", "2", "0", "-",
             "0", "2", "-", "2", "9">>
      [] string = "2020-02-30" ->
           <<"2", "0", "2", "0", "-",
             "0", "2", "-", "3", "0">>
      [] string = "2019-02-29" ->
           <<"2", "0", "1", "9", "-",
             "0", "2", "-", "2", "9">>
      [] string = "2018-11-13T20:20:39+00:00" ->
           <<"2", "0", "1", "8", "-", "1", "1", "-", "1", "3", "T", "2",
             "0", ":", "2", "0", ":", "3", "9", "+", "0", "0", ":", "0", "0">>
      [] string = "2018-11-13T20:20:39Z" ->
           <<"2", "0", "1", "8", "-", "1", "1", "-", "1", "3",
             "T", "2", "0", ":", "2", "0", ":", "3", "9", "Z">>
      [] string = "2018-11-13T20:20:39.5Z" ->
           <<"2", "0", "1", "8", "-", "1", "1", "-", "1", "3", "T",
             "2", "0", ":", "2", "0", ":", "3", "9", ".", "5", "Z">>
      [] string = "2018-11-13T20:20:39" ->
           <<"2", "0", "1", "8", "-", "1", "1", "-", "1",
             "3", "T", "2", "0", ":", "2", "0", ":", "3", "9">>
      [] string = "2018-11-13T24:20:39Z" ->
           <<"2", "0", "1", "8", "-", "1", "1", "-", "1", "3",
             "T", "2", "4", ":", "2", "0", ":", "3", "9", "Z">>

Digits == <<"0", "1", "2", "3", "4", "5", "6", "7", "8", "9">>

IsDigit(c) == c \in Range(Digits)

(* char::to_digit(10) of a decimal digit. *)
DigitValue(c) == (CHOOSE i \in 1..Len(Digits) : Digits[i] = c) - 1

AllDigits(cs) == \A i \in 1..Len(cs) : IsDigit(cs[i])

(* The number written by a run of digits short enough not to overflow. *)
RECURSIVE DigitsValue(_)
DigitsValue(cs) ==
    IF cs = <<>> THEN 0
    ELSE 10 * DigitsValue(SubSeq(cs, 1, Len(cs) - 1)) + DigitValue(cs[Len(cs)])

I32Max == 2147483647

I32Min == (-I32Max) - 1

(* The digit loop of i32::from_str: checked_mul(10), then checked_add of the *)
(* digit for a positive number and checked_sub for a negative one; TRUE when  *)
(* every character is a digit and no step overflows.                          *)
RECURSIVE checked_digits(_, _, _)
checked_digits(digits, acc, is_positive) ==
    IF digits = <<>> THEN TRUE
    ELSE IF ~IsDigit(Head(digits)) THEN FALSE
    ELSE LET x == DigitValue(Head(digits))
         IN  IF is_positive
             THEN IF acc > I32Max \div 10 THEN FALSE
                  ELSE IF 10 * acc > I32Max - x THEN FALSE
                  ELSE checked_digits(Tail(digits), 10 * acc + x, is_positive)
             ELSE IF acc < -(I32Max \div 10) THEN FALSE
                  ELSE IF 10 * acc < I32Min + x THEN FALSE
                  ELSE checked_digits(Tail(digits), 10 * acc - x, is_positive)

(* string.parse::<i32>().is_ok() (lib.rs 243): an optional sign, then one or *)
(* more digits whose value fits 32 bits.                                     *)
parse_i32(string) ==
    LET src == Chars(string)
    IN  IF src = <<>> \/ src = <<"+">> \/ src = <<"-">> THEN FALSE
        ELSE IF Head(src) = "+" THEN checked_digits(Tail(src), 0, TRUE)
        ELSE IF Head(src) = "-" THEN checked_digits(Tail(src), 0, FALSE)
        ELSE checked_digits(src, 0, TRUE)

IsLeapYear(year) == (year % 4 = 0 /\ year % 100 # 0) \/ year % 400 = 0

DaysInMonth(year, month) ==
    IF month = 2 THEN (IF IsLeapYear(year) THEN 29 ELSE 28)
    ELSE IF month \in {4, 6, 9, 11} THEN 30 ELSE 31

(* cs is a calendar date written as four digits, "-", two digits, "-", two *)
(* digits.  (chrono also takes a field written with fewer digits and a     *)
(* signed year; no literal of the model has one.)                          *)
IsYmd(cs) ==
    /\ Len(cs) = 10
    /\ cs[5] = "-" /\ cs[8] = "-"
    /\ AllDigits(SubSeq(cs, 1, 4)) /\ AllDigits(SubSeq(cs, 6, 7)) /\ AllDigits(SubSeq(cs, 9, 10))
    /\ LET year == DigitsValue(SubSeq(cs, 1, 4))
           month == DigitsValue(SubSeq(cs, 6, 7))
           day == DigitsValue(SubSeq(cs, 9, 10))
       IN  month \in 1..12 /\ day \in 1..DaysInMonth(year, month)

(* NaiveDate::parse_from_str(string, "%Y-%m-%d").is_ok() (lib.rs 245): the *)
(* whole string is a calendar date.                                        *)
parse_naive_date(string) == IsYmd(Chars(string))

(* cs is a time of day written hh:mm:ss; the second may be a leap second. *)
IsHms(cs) ==
    /\ Len(cs) = 8
    /\ cs[3] = ":" /\ cs[6] = ":"
    /\ AllDigits(SubSeq(cs, 1, 2)) /\ AllDigits(SubSeq(cs, 4, 5)) /\ AllDigits(SubSeq(cs, 7, 8))
    /\ DigitsValue(SubSeq(cs, 1, 2)) <= 23
    /\ DigitsValue(SubSeq(cs, 4, 5)) <= 59
    /\ DigitsValue(SubSeq(cs, 7, 8)) <= 60

(* cs is "Z" or a numeric offset written +hh:mm or -hh:mm. *)
IsOffset(cs) ==
    \/ cs = <<"Z">>
    \/ /\ Len(cs) = 6
       /\ cs[1] \in {"+", "-"} /\ cs[4] = ":"
       /\ AllDigits(SubSeq(cs, 2, 3)) /\ AllDigits(SubSeq(cs, 5, 6))
       /\ DigitsValue(SubSeq(cs, 2, 3)) <= 23
       /\ DigitsValue(SubSeq(cs, 5, 6)) <= 59

(* cs is an optional fraction of a second (".", then digits) and an offset. *)
IsFractionAndOffset(cs) ==
    \/ IsOffset(cs)
    \/ /\ Len(cs) >= 3
       /\ cs[1] = "."
       /\ \E n \in 2..(Len(cs) - 1) :
             AllDigits(SubSeq(cs, 2, n)) /\ IsOffset(SubSeq(cs, n + 1, Len(cs)))

(* DateTime::parse_from_rfc3339(string).is_ok() (lib.rs 247): a date, "T", a *)
(* time, an optional fraction and an offset.                                 *)
parse_from_rfc3339(string) ==
    LET src == Chars(string)
    IN  /\ Len(src) >= 20
        /\ IsYmd(SubSeq(src, 1, 10))
        /\ src[11] = "T"
        /\ IsHms(SubSeq(src, 12, 19))
        /\ IsFractionAndOffset(SubSeq(src, 20, Len(src)))

(* infer_format without the date recognizer. *)
infer_format_no_date(string) ==
    IF parse_i32(string) THEN <<"integer">>
    ELSE IF parse_from_rfc3339(string) THEN <<"date-time">>
    ELSE <<>>

(* infer_format (lib.rs 242-251): the recognizers in the order of the chain. *)
infer_format(string) ==
    IF parse_i32(string) THEN <<"integer">>
    ELSE IF parse_naive_date(string) THEN <<"date">>
    ELSE IF parse_from_rfc3339(string) THEN <<"date-time">>
    ELSE <<>>

(***************************************************************************)
(* Schema fragments: serde_json objects with the schema keywords as keys.  *)
(* An absent key is <<>>, a present one <<value>>.                         *)
(***************************************************************************)
NoKeys ==
    [type |-> <<>>, format |-> <<>>, items |-> <<>>, required |-> <<>>,
     properties |-> <<>>, anyOf |-> <<>>, schema |-> <<>>]

TypeOnly(t) == [NoKeys EXCEPT !.type = <<t>>]

(* The results of a call: a value, or a panic (a failed unwrap). *)
Ok(v) == [panic |-> FALSE, value |-> <<v>>]

Panic == [panic |-> TRUE, value |-> <<>>]

(***************************************************************************)
(* Hash for ValueWrapper (lib.rs 14-48) of a fragment.  The hasher is fed  *)
(* the fragment's content: an array feeds its elements in order, an object *)
(* XORs the hashes of its (key, value) entries, which does not depend on   *)
(* their order.  DefaultHasher::finish is modelled as collision-free: the  *)
(* hash is the canonical token stream itself, the entries of an object in  *)
(* key order.  What this leaves out: the XOR is over 64-bit words, so the  *)
(* entry hashes of more than 64 entries are linearly dependent and two     *)
(* distinct objects over the same keys can hash alike; KeyOrder is far     *)
(* below that size.  "$schema" is added after the last hash is taken.      *)
(***************************************************************************)
RECURSIVE hash(_)
hash(v) ==
    LET entry(name, field, body) == IF field = <<>> THEN <<>> ELSE <<name>> \o body
    IN  <<"{">>
        \o entry("anyOf", v.anyOf,
                 <<"[">> \o Concat([i \in 1..Len(v.anyOf[1]) |-> hash(v.anyOf[1][i])]) \o <<"]">>)
        \o entry("format", v.format, v.format)
        \o entry("items", v.items, hash(v.items[1]))
        \o entry("properties", v.properties,
                 <<"{">> \o Concat([i \in 1..Len(v.properties[1]) |->
                                      <<v.properties[1][i][1]>> \o hash(v.properties[1][i][2])])
                 \o <<"}">>)
        \o entry("required", v.required, <<"[">> \o v.required[1] \o <<"]">>)
        \o entry("type", v.type, v.type)
        \o <<"}">>

(* The u64 order of the hashes, which orders BTreeMap<u64, Value>: a fixed total *)
(* order on the streams.  It places {"type": "string"} before {"type": "integer"} *)
(* and the object fragment with a null property before the one with an integer   *)
(* property, the two orders the tests record (lib.rs 341-352, 405-417).           *)
TokenOrder ==
    <<"{", "}", "[", "]", "a", "b", "anyOf", "format", "items", "properties", "required",
      "type", "string", "object", "null", "integer", "boolean", "array", "number",
      "date", "date-time">>

TokenRank(t) == CHOOSE i \in 1..Len(TokenOrder) : TokenOrder[i] = t

RECURSIVE StreamLess(_, _)
StreamLess(s, t) ==
    IF s = <<>> THEN t # <<>>
    ELSE IF t = <<>> THEN FALSE
    ELSE IF Head(s) = Head(t) THEN StreamLess(Tail(s), Tail(t))
    ELSE TokenRank(Head(s)) < TokenRank(Head(t))

(* BTreeMap<u64, Value>::insert: entries are <<key, value>> in key order; an *)
(* equal key keeps its place and takes the new value.                        *)
RECURSIVE btree_insert(_, _, _)
btree_insert(map, key, value) ==
    IF map = <<>> THEN <<<<key, value>>>>
    ELSE IF Head(map)[1] = key THEN <<<<key, value>>>> \o Tail(map)
    ELSE IF StreamLess(key, Head(map)[1]) THEN <<<<key, value>>>> \o map
    ELSE <<Head(map)>> \o btree_insert(Tail(map), key, value)

(* collect() of (hash, inferred) pairs into the BTreeMap, in iteration order. *)
RECURSIVE collect(_)
collect(pairs) ==
    IF pairs = <<>> THEN <<>>
    ELSE LET last == pairs[Len(pairs)]
         IN  btree_insert(collect(SubSeq(pairs, 1, Len(pairs) - 1)), last[1], last[2])

(* items.values().collect::<Vec<&Value>>() *)
values(map) == [i \in 1..Len(map) |-> map[i][2]]

(***************************************************************************)
(* try_merge and its helpers (lib.rs 160-234).                             *)
(***************************************************************************)
(* data.iter().all(|item| item.get("type").unwrap() == "object"): stops at the *)
(* first item that is not an object, panics on an item without "type".        *)
RECURSIVE all_object(_)
all_object(data) ==
    IF data = <<>> THEN Ok(TRUE)
    ELSE IF Head(data).type = <<>> THEN Panic
    ELSE IF Head(data).type[1] # "object" THEN Ok(FALSE)
    ELSE all_object(Tail(data))

(* properties_types.entry(name).or_insert_with(Vec::new), then the push of a *)
(* schema that known_types does not contain yet (lib.rs 172-177).            *)
RECURSIVE push_known_type(_, _, _)
push_known_type(properties_types, name, schema) ==
    IF properties_types = <<>> THEN <<<<name, <<schema>>>>>>
    ELSE LET first == Head(properties_types)
         IN  IF first[1] = name
             THEN <<<<name, IF schema \in Range(first[2]) THEN first[2]
                            ELSE Append(first[2], schema)>>>>
                  \o Tail(properties_types)
             ELSE IF KeyIndex(name) < KeyIndex(first[1])
             THEN <<<<name, <<schema>>>>>> \o properties_types
             ELSE <<first>> \o push_known_type(Tail(properties_types), name, schema)

(* The inner loop of try_merge over one item's properties (lib.rs 171-178). *)
RECURSIVE collect_properties(_, _)
collect_properties(properties_types, properties) ==
    IF properties = <<>> THEN properties_types
    ELSE collect_properties(
             push_known_type(properties_types, Head(properties)[1], Head(properties)[2]),
             Tail(properties))

(* collect_required (lib.rs 189-199): the item's "required" as a HashSet. *)
collect_required(known_required, item) ==
    IF item.required = <<>> THEN Panic
    ELSE Ok(Append(known_required, Range(item.required[1])))

(* fill_required without the filter: every name of the first set is kept. *)
fill_required_unfiltered(map, known_required) ==
    IF known_required = <<>> \/ Head(known_required) = {} THEN {map}
    ELSE {[map EXCEPT !.required = <<common_required>>] :
             common_required \in Orderings(Head(known_required))}

(* fill_required (lib.rs 203-214).  first_set.iter() walks a HashSet with a   *)
(* RandomState hasher: the names come out in an order the program does not   *)
(* choose, so every order is an outcome.                                     *)
fill_required(map, known_required) ==
    IF known_required = <<>> THEN {map}
    ELSE LET first_set == Head(known_required)
             common == {k \in first_set :
                           \A i \in 1..Len(known_required) : k \in known_required[i]}
         IN  IF common = {} THEN {map}
             ELSE {[map EXCEPT !.required = <<common_required>>] :
                      common_required \in Orderings(common)}

(* fill_properties that keeps only the first known type of each property. *)
fill_properties_first(map, properties_types) ==
    [map EXCEPT !.properties =
        <<[i \in 1..Len(properties_types) |->
              <<properties_types[i][1], properties_types[i][2][1]>>]>>]

(* fill_properties (lib.rs 218-234). *)
fill_properties(map, properties_types) ==
    [map EXCEPT !.properties =
        <<[i \in 1..Len(properties_types) |->
              LET property == properties_types[i][1]
                  known_types == properties_types[i][2]
              IN  <<property,
                    IF Len(known_types) = 1 THEN known_types[1]
                    ELSE [NoKeys EXCEPT !.anyOf = <<known_types>>]>>]>>]

(* The outer loop of try_merge (lib.rs 169-180): the state is the pair of *)
(* properties_types and known_required; a failed unwrap ends it.          *)
RECURSIVE merge_loop(_, _, _)
merge_loop(data, properties_types, known_required) ==
    IF data = <<>> THEN Ok(<<properties_types, known_required>>)
    ELSE LET item == Head(data)
         IN  IF item.properties = <<>> THEN Panic
             ELSE LET required == collect_required(known_required, item)
                  IN  IF required.panic THEN Panic
                      ELSE merge_loop(Tail(data),
                                      collect_properties(properties_types, item.properties[1]),
                                      required.value[1])

(* try_merge: the set of its outcomes, each Panic, Ok(<<>>) for None or *)
(* Ok(<<merged>>) for Some(merged).                                     *)
try_merge(data) ==
    LET all == all_object(data)
    IN  IF all.panic THEN {Panic}
        ELSE IF ~all.value[1] THEN {Ok(<<>>)}
        ELSE LET loop == merge_loop(data, <<>>, <<>>)
             IN  IF loop.panic THEN {Panic}
                 ELSE {Ok(<<fill_properties(map, loop.value[1][1])>>) :
                          map \in fill_required(TypeOnly("object"), loop.value[1][2])}

(***************************************************************************)
(* JSONSchema::_infer and the infer_* methods (lib.rs 77-152).  Each gives *)
(* the set of its outcomes.                                                *)
(***************************************************************************)
(* infer_string that looks for a format whatever the flag says. *)
infer_string_always(string, flag) ==
    IF infer_format(string) # <<>>
    THEN [TypeOnly("string") EXCEPT !.format = infer_format(string)]
    ELSE TypeOnly("string")

infer_string(string, flag) ==
    LET data == TypeOnly("string")
    IN  IF flag /\ infer_format(string) # <<>>
        THEN [data EXCEPT !.format = infer_format(string)]
        ELSE data

infer_number(number) ==
    IF is_f64(number) THEN TypeOnly("number") ELSE TypeOnly("integer")

(* An object fragment that leaves "required" out when the object has no keys. *)
object_schema_omit_empty(required, properties) ==
    IF required = <<>> THEN [TypeOnly("object") EXCEPT !.properties = <<properties>>]
    ELSE [TypeOnly("object") EXCEPT !.required = <<required>>, !.properties = <<properties>>]

(* An object fragment whose "required" misses the last key pushed. *)
object_schema_short(required, properties) ==
    [TypeOnly("object") EXCEPT !.required = <<SubSeq(required, 1, Len(required) - 1)>>,
                               !.properties = <<properties>>]

(* The object fragment built by json!() at the end of infer_object (lib.rs 151). *)
object_schema(required, properties) ==
    [TypeOnly("object") EXCEPT !.required = <<required>>, !.properties = <<properties>>]

(* The tail of infer_array without the try_merge branch. *)
array_schema_unmerged(map) ==
    LET data == TypeOnly("array")
        items == values(map)
    IN  IF Len(items) = 1 THEN {Ok([data EXCEPT !.items = <<items[1]>>])}
        ELSE {Ok([data EXCEPT !.items = <<[NoKeys EXCEPT !.anyOf = <<items>>]>>])}

(* The tail of infer_array that returns the union of the element fragments *)
(* itself instead of storing it under "items".                             *)
array_schema_bare_union(map) ==
    LET data == TypeOnly("array")
        items == values(map)
    IN  IF Len(items) = 1 THEN {Ok([data EXCEPT !.items = <<items[1]>>])}
        ELSE {IF merged.panic THEN Panic
              ELSE IF merged.value[1] # <<>>
                   THEN Ok([data EXCEPT !.items = merged.value[1]])
                   ELSE Ok([NoKeys EXCEPT !.anyOf = <<items>>]) :
                 merged \in try_merge(items)}

(* The tail of infer_array (lib.rs 132-140) on the collected BTreeMap. *)
array_schema(map) ==
    LET data == TypeOnly("array")
        items == values(map)
    IN  IF Len(items) = 1 THEN {Ok([data EXCEPT !.items = <<items[1]>>])}
        ELSE {IF merged.panic THEN Panic
              ELSE IF merged.value[1] # <<>>
                   THEN Ok([data EXCEPT !.items = merged.value[1]])
                   ELSE Ok([data EXCEPT !.items = <<[NoKeys EXCEPT !.anyOf = <<items>>]>>]) :
                 merged \in try_merge(items)}

(* The BTreeMaps the parallel branch (lib.rs 110-119) can collect when the  *)
(* pairs are inserted in any completion order: the keys are those of        *)
(* collect, and a key keeps the fragment of whichever of its pairs came     *)
(* last.                                                                    *)
par_collect(pairs) ==
    LET map == collect(pairs)
        last(key) == {pairs[i][2] : i \in {j \in 1..Len(pairs) : pairs[j][1] = key}}
    IN  {[i \in 1..Len(map) |-> <<map[i][1], winners[i]>>] :
            winners \in Choices([i \in 1..Len(map) |-> last(map[i][1])])}

(* The BTreeMaps the element map can collect (lib.rs 109-131): the sequential *)
(* branch inserts in element order, the parallel one in any completion order. *)
collected(array, inferred) ==
    LET pairs == [i \in 1..Len(inferred) |-> <<hash(inferred[i]), inferred[i]>>]
    IN  IF Len(array) > ParThreshold
        THEN par_collect(pairs)
        ELSE {collect(pairs)}

RECURSIVE _infer(_, _)
infer_array(array, flag) ==
    UNION {IF \E i \in 1..Len(results) : results[i].panic THEN {Panic}
           ELSE UNION {array_schema(map) :
                          map \in collected(array, [i \in 1..Len(results) |-> results[i].value[1]])} :
             results \in Choices([i \in 1..Len(array) |-> _infer(array[i], flag)])}

infer_object(object, flag) ==
    {IF \E i \in 1..Len(results) : results[i].panic THEN Panic
     ELSE Ok(object_schema([i \in 1..Len(object) |-> object[i][1]],
                           [i \in 1..Len(object) |-> <<object[i][1], results[i].value[1]>>])) :
       results \in Choices([i \in 1..Len(object) |-> _infer(object[i][2], flag)])}

_infer(data, flag) ==
    CASE data.kind = "null" -> {Ok(TypeOnly("null"))}
      [] data.kind = "bool" -> {Ok(TypeOnly("boolean"))}
      [] data.kind = "string" -> {Ok(infer_string(data.str, flag))}
      [] data.kind = "number" -> {Ok(infer_number(data.str))}
      [] data.kind = "array" -> infer_array(data.elems, flag)
      [] data.kind = "object" -> infer_object(data.members, flag)

SchemaUri == "http://json-schema.org/draft-07/schema#"

(* JSONSchema::infer (lib.rs 68-75): _infer, then the "$schema" key. *)
infer(data, flag) ==
    {IF r.panic THEN Panic ELSE Ok([r.value[1] EXCEPT !.schema = <<SchemaUri>>]) :
       r \in _infer(data, flag)}

(***************************************************************************)
(* The inputs of the model.                                                *)
(***************************************************************************)
Scalars ==
    {Null, Bool("true"), Bool("false"), Number("5"), Number("1.35"), Number("1.0")}
    \cup {String(s) : s \in StringLiterals}

(* Every object whose keys are in Keys and whose values are in vals. *)
ObjectsOver(vals) ==
    UNION {{Object(MapOf(ks, m)) : m \in [ks -> vals]} : ks \in SUBSET Keys}

(* Every array of at most n elements of vals. *)
ArraysOver(vals, n) ==
    UNION {{Array(v) : v \in [1..k -> vals]} : k \in 0..n}

(* Objects of numbers and nulls; a null only under the first key. *)
FlatObjects ==
    {o \in ObjectsOver({Number("1"), Null}) :
        \A i \in 1..Len(o.members) : o.members[i][2] = Null => o.members[i][1] = KeyOrder[1]}

Elements ==
    {Number("1"), Number("2"), String("2020-01-01")} \cup FlatObjects

FlatArrays == ArraysOver(Elements, MaxLen)

(* Objects whose properties are themselves objects or arrays. *)
NestedObjects ==
    ObjectsOver({Number("1"), String("2020-01-01"), Object(<<>>),
                 Object(<<<<"a", Number("1")>>>>), Array(<<>>),
                 Array(<<String("1"), Null>>)})

(* Arrays of objects whose property "a" is an object, an array or a number. *)
ArraysOfNested ==
    LET inner == {Object(<<<<"a", v>>>>) :
                     v \in {Number("1"), Object(<<>>), Object(<<<<"a", Number("1")>>>>),
                            Object(<<<<"a", Null>>>>), Array(<<Number("1")>>)}}
    IN  {Array(<<x, y>>) : x, y \in inner}

(* Arrays of arrays. *)
ArraysOfArrays ==
    LET both == Object(<<<<"a", Number("1")>>, <<"b", Number("1")>>>>)
        other == Object(<<<<"a", Number("1")>>, <<"b", Null>>>>)
        elems == {Number("1"), both, other}
        inner == {Array(<<>>)} \cup {Array(<<x>>) : x \in elems}
                 \cup {Array(<<x, y>>) : x, y \in elems}
    IN  {Array(<<x>>) : x \in inner} \cup {Array(<<x, y>>) : x, y \in inner}

Values == Scalars \cup FlatArrays \cup NestedObjects \cup ArraysOfNested \cup ArraysOfArrays

(***************************************************************************)
(* The state machine: a JSONSchema (input, detect_format) and the outcome  *)
(* of the last call of infer, with the input and flag it ran on.           *)
(***************************************************************************)
NoResult ==
    [status |-> "none", input |-> Null, detect_format |-> TRUE, schema |-> NoKeys]

Init ==
    /\ input \in Values
    /\ detect_format = TRUE
    /\ result = NoResult

(* JSONSchema::new (lib.rs 56-61) on the same elements in another order. *)
New(v) ==
    /\ input' = v
    /\ detect_format' = TRUE
    /\ UNCHANGED result

(* JSONSchema::detect_format (lib.rs 63-66). *)
DetectFormat(flag) ==
    /\ detect_format' = flag
    /\ UNCHANGED <<input, result>>

(* JSONSchema::infer (lib.rs 68-75). *)
Infer ==
    /\ \E r \in infer(input, detect_format) :
          result' = [status |-> IF r.panic THEN "panic" ELSE "ok",
                     input |-> input,
                     detect_format |-> detect_format,
                     schema |-> IF r.panic THEN NoKeys ELSE r.value[1]]
    /\ UNCHANGED <<input, detect_format>>

Next ==
    \/ \E flag \in BOOLEAN : DetectFormat(flag)
    \/ Infer

Spec == Init /\ [][Next]_vars

(* Arrays one element longer than the threshold of the parallel branch, of *)
(* numbers and of two objects with the same two keys.                      *)
LongArrays ==
    LET both == Object(<<<<"a", Number("1")>>, <<"b", Number("1")>>>>)
        other == Object(<<<<"a", Number("1")>>, <<"b", Null>>>>)
    IN  {Array(v) : v \in [1..(ParThreshold + 1) -> {Number("1"), both, other}]}

(* The same program on the long arrays. *)
InitLong ==
    /\ input \in LongArrays
    /\ detect_format = TRUE
    /\ result = NoResult

SpecLong == InitLong /\ [][Next]_vars

(* The same program with a caller that also builds a JSONSchema on the array's *)
(* elements in another order.                                                  *)
NextPermuted ==
    \/ \E v \in {Array(e) : e \in Rearrangements(input.elems)} :
          input.kind = "array" /\ New(v)
    \/ \E flag \in BOOLEAN : DetectFormat(flag)
    \/ Infer

SpecPermuted == Init /\ [][NextPermuted]_vars

(***************************************************************************)
(* Reading a schema, and what the properties below speak about.            *)
(***************************************************************************)
RequiredOf(schema) == IF schema.required = <<>> THEN {} ELSE Range(schema.required[1])

PropertyNames(schema) ==
    IF schema.properties = <<>> THEN {} ELSE MapKeys(schema.properties[1])

PropertyOf(schema, name) == schema.properties[1][MapGet(schema.properties[1], name)][2]

Inferred == result.status = "ok"

InferredArray == Inferred /\ result.input.kind = "array"

(* The array of the last infer holds n >= 1 values, all of them objects. *)
InferredObjects ==
    /\ InferredArray
    /\ result.input.elems # <<>>
    /\ \A i \in 1..Len(result.input.elems) : result.input.elems[i].kind = "object"

(* The fragments the elements of an array can be inferred to, one per element. *)
ElementFragments(array, flag) ==
    Choices([i \in 1..Len(array) |-> {r.value[1] : r \in {o \in _infer(array[i], flag) : ~o.panic}}])

(* C1. Required-intersection law: after infer on an array of N >= 1 objects, a *)
(* name is in "required" of the array's items if and only if it is a key of    *)
(* every one of the N objects.                                                 *)
C1_RequiredIntersection ==
    InferredObjects =>
        \A name \in Keys :
            name \in RequiredOf(result.schema.items[1])
            <=> \A i \in 1..Len(result.input.elems) :
                    name \in MapKeys(result.input.elems[i].members)

(* C1 witness: objects with different key sets were merged; one name stayed *)
(* required and another, present in only some of them, did not.             *)
C1_Witness ==
    /\ InferredObjects
    /\ \E i, j \in 1..Len(result.input.elems) :
          MapKeys(result.input.elems[i].members) # MapKeys(result.input.elems[j].members)
    /\ RequiredOf(result.schema.items[1]) # {}
    /\ PropertyNames(result.schema.items[1]) \ RequiredOf(result.schema.items[1]) # {}

(* What C2 asks of the merged schema for one choice of the elements' fragments. *)
UnionCollapse(merged, fragments) ==
    \A name \in Keys :
        LET observed == {PropertyOf(f, name) :
                            f \in {g \in Range(fragments) : name \in PropertyNames(g)}}
        IN  /\ name \in PropertyNames(merged) <=> observed # {}
            /\ Cardinality(observed) = 1 => PropertyOf(merged, name) \in observed
            /\ Cardinality(observed) >= 2 =>
                   LET union == PropertyOf(merged, name)
                   IN  /\ union.type = <<>>
                       /\ union.anyOf # <<>>
                       /\ Range(union.anyOf[1]) = observed
                       /\ Len(union.anyOf[1]) = Cardinality(observed)

(* C2. Property union collapse in try_merge: when the distinct object fragments *)
(* of an array are merged, each property name that occurs in one of them maps   *)
(* to its fragment if one distinct fragment was observed for it, and to an      *)
(* anyOf of exactly the distinct observed fragments, each once, if two or more  *)
(* were (object-typed ones included, unmerged); no other name is a property.    *)
C2_UnionCollapse ==
    InferredObjects =>
        \E fragments \in ElementFragments(result.input.elems, result.detect_format) :
            Cardinality(Range(fragments)) >= 2
                => UnionCollapse(result.schema.items[1], fragments)

(* C2 witness: a merge in which a property was observed with two distinct *)
(* object-typed fragments, which are listed in an anyOf.                  *)
C2_Witness ==
    /\ InferredObjects
    /\ \A fragments \in ElementFragments(result.input.elems, result.detect_format) :
          Cardinality(Range(fragments)) >= 2
    /\ \E name \in PropertyNames(result.schema.items[1]) :
          LET union == PropertyOf(result.schema.items[1], name)
          IN  /\ union.anyOf # <<>>
              /\ \A i \in 1..Len(union.anyOf[1]) : union.anyOf[1][i].type = <<"object">>

(* What C3 asks of items for one choice of the elements' fragments. *)
ItemsRule(items, fragments) ==
    LET D == Range(fragments)
    IN  IF Cardinality(D) = 1 THEN items \in D
        ELSE IF \A f \in D : f.type = <<"object">>
        THEN /\ items.type = <<"object">>
             /\ items.anyOf = <<>>
             /\ PropertyNames(items) = UNION {PropertyNames(f) : f \in D}
        ELSE /\ items.type = <<>>
             /\ items.anyOf # <<>>
             /\ Range(items.anyOf[1]) = D
             /\ Len(items.anyOf[1]) = Cardinality(D)

(* C3. Array items rule: for a non-empty array with D the distinct fragments of *)
(* its elements, items is the one fragment if D has one member, the merged      *)
(* object fragment if every member of D is an object, and otherwise an anyOf    *)
(* of exactly the members of D, objects included unmerged.                      *)
C3_ItemsRule ==
    (InferredArray /\ result.input.elems # <<>>) =>
        /\ result.schema.type = <<"array">>
        /\ result.schema.items # <<>>
        /\ \E fragments \in ElementFragments(result.input.elems, result.detect_format) :
              ItemsRule(result.schema.items[1], fragments)

(* C3 witness: an array with two distinct object fragments and one that is *)
(* not an object, all three listed in the anyOf.                           *)
C3_Witness ==
    /\ InferredArray
    /\ result.schema.items # <<>>
    /\ result.schema.items[1].anyOf # <<>>
    /\ \E i, j, k \in 1..Len(result.schema.items[1].anyOf[1]) :
          /\ i # j
          /\ result.schema.items[1].anyOf[1][i].type = <<"object">>
          /\ result.schema.items[1].anyOf[1][j].type = <<"object">>
          /\ result.schema.items[1].anyOf[1][k].type # <<"object">>

(* C4. Determinism: two runs of infer on the same value with the same flag *)
(* return the same schema.                                                 *)
C4_Determinism ==
    [][(/\ result.status = "ok"
        /\ result'.status = "ok"
        /\ result'.input = result.input
        /\ result'.detect_format = result.detect_format)
       => result'.schema = result.schema]_vars

(* C5. Permutation invariance: infer on an array and on any rearrangement of *)
(* its elements, with the same flag, return the same schema.                 *)
C5_PermutationInvariance ==
    [][(/\ result.status = "ok"
        /\ result'.status = "ok"
        /\ result.input.kind = "array"
        /\ result'.input.kind = "array"
        /\ result'.input.elems \in Rearrangements(result.input.elems)
        /\ result'.detect_format = result.detect_format)
       => result'.schema = result.schema]_vars

(* A fragment try_merge can take: it has "type", and an object-typed one has *)
(* both "properties" and "required".                                        *)
Mergeable(f) ==
    /\ f.type # <<>>
    /\ f.type = <<"object">> => (f.properties # <<>> /\ f.required # <<>>)

(* C6. Totality: infer never panics, and every fragment an array hands to *)
(* try_merge has "type" and, when object-typed, "properties" and          *)
(* "required".                                                            *)
C6_Totality ==
    /\ result.status # "panic"
    /\ InferredArray =>
           \A fragments \in ElementFragments(result.input.elems, result.detect_format) :
               \A f \in Range(fragments) : Mergeable(f)

(* C6 witness: infer returned for an array of arrays whose fragments went *)
(* through try_merge, one of them holding a fragment without "type" as    *)
(* its items.                                                             *)
C6_Witness ==
    /\ InferredArray
    /\ result.schema.items[1].anyOf # <<>>
    /\ \E i \in 1..Len(result.schema.items[1].anyOf[1]) :
          LET member == result.schema.items[1].anyOf[1][i]
          IN  member.items # <<>> /\ member.items[1].type = <<>>

(* A fragment with every "required" in key order: two fragments are equal up *)
(* to the order of "required" when these agree.                              *)
RECURSIVE Canonical(_)
Canonical(f) ==
    [f EXCEPT
        !.required = IF f.required = <<>> THEN <<>>
                     ELSE <<SelectSeq(KeyOrder, LAMBDA k : k \in Range(f.required[1]))>>,
        !.items = IF f.items = <<>> THEN <<>> ELSE <<Canonical(f.items[1])>>,
        !.properties = IF f.properties = <<>> THEN <<>>
                       ELSE <<[i \in 1..Len(f.properties[1]) |->
                                 <<f.properties[1][i][1], Canonical(f.properties[1][i][2])>>]>>,
        !.anyOf = IF f.anyOf = <<>> THEN <<>>
                  ELSE <<[i \in 1..Len(f.anyOf[1]) |-> Canonical(f.anyOf[1][i])]>>]

(* What C7 asks of items for one choice of the elements' fragments. *)
KeepsEachShapeOnce(items, fragments) ==
    LET shapes == {Canonical(f) : f \in Range(fragments)}
    IN  IF items.anyOf # <<>>
        THEN /\ {Canonical(items.anyOf[1][i]) : i \in 1..Len(items.anyOf[1])} = shapes
             /\ Len(items.anyOf[1]) = Cardinality(shapes)
        ELSE IF items.type = <<"object">>
        THEN \A shape \in shapes : PropertyNames(shape) \subseteq PropertyNames(items)
        ELSE shapes = {Canonical(items)}

(* C7. Deduplication by structural equality: the element fragments of an array *)
(* are collapsed exactly when they are equal with "required" read as a set, so *)
(* items represents every distinct shape and keeps no shape twice.             *)
C7_StructuralDedup ==
    (InferredArray /\ result.input.elems # <<>>) =>
        \E fragments \in ElementFragments(result.input.elems, result.detect_format) :
            KeepsEachShapeOnce(result.schema.items[1], fragments)

(* C8. Empty array: the schema inferred for the empty array has no items, or *)
(* items that constrain nothing.                                             *)
C8_EmptyArrayUnconstrained ==
    (InferredArray /\ result.input.elems = <<>>) =>
        (result.schema.items = <<>> \/ result.schema.items[1] = NoKeys)

(* C9. Single object instance: infer on an object gives an object fragment  *)
(* whose properties are exactly the object's keys, each with the fragment   *)
(* inferred for its value, and whose required lists every key exactly once. *)
C9_SingleObject ==
    (Inferred /\ result.input.kind = "object") =>
        LET object == result.input.members
            schema == result.schema
        IN  /\ schema.type = <<"object">>
            /\ schema.properties # <<>>
            /\ schema.required # <<>>
            /\ Len(schema.properties[1]) = Len(object)
            /\ \A i \in 1..Len(object) :
                  /\ schema.properties[1][i][1] = object[i][1]
                  /\ Ok(schema.properties[1][i][2]) \in _infer(object[i][2], result.detect_format)
            /\ Len(schema.required[1]) = Len(object)
            /\ Range(schema.required[1]) = MapKeys(object)

(* C9 witness: infer ran on an object with two keys, one of them holding an *)
(* object.                                                                  *)
C9_Witness ==
    /\ Inferred
    /\ result.input.kind = "object"
    /\ Len(result.input.members) = 2
    /\ \E i \in 1..2 : result.input.members[i][2].kind = "object"
    /\ Len(result.schema.required[1]) = 2

(* Some fragment of the schema, at any depth, has a "format". *)
RECURSIVE HasFormat(_)
HasFormat(f) ==
    \/ f.format # <<>>
    \/ f.items # <<>> /\ HasFormat(f.items[1])
    \/ f.properties # <<>> /\ \E i \in 1..Len(f.properties[1]) : HasFormat(f.properties[1][i][2])
    \/ f.anyOf # <<>> /\ \E i \in 1..Len(f.anyOf[1]) : HasFormat(f.anyOf[1][i])

(* C10. Format opt-out: a schema inferred with detect_format false has no *)
(* "format" at any depth.                                                 *)
C10_FormatOptOut ==
    (Inferred /\ ~result.detect_format) => ~HasFormat(result.schema)

(* C10 witness: infer ran with detect_format false on an object holding an *)
(* array with the string "1", which the integer recognizer accepts.        *)
C10_Witness ==
    /\ Inferred
    /\ ~result.detect_format
    /\ result.input.kind = "object"
    /\ \E i \in 1..Len(result.input.members) :
          /\ result.input.members[i][2].kind = "array"
          /\ String("1") \in Range(result.input.members[i][2].elems)
          /\ PropertyOf(result.schema, result.input.members[i][1]).items[1].anyOf # <<>>

(* C11. Format precedence: after infer with detect_format true on a string, the  *)
(* schema's "format" is integer when the integer recognizer accepts the string, *)
(* whatever the other two say; date when the date recognizer accepts it and the *)
(* integer one does not; date-time when only the RFC 3339 recognizer accepts    *)
(* it; and there is no "format" when none of the three accepts it.              *)
C11_FormatPrecedence ==
    (Inferred /\ result.detect_format /\ result.input.kind = "string") =>
        LET string == result.input.str
            format == result.schema.format
        IN  /\ result.schema.type = <<"string">>
            /\ parse_i32(string) => format = <<"integer">>
            /\ (~parse_i32(string) /\ parse_naive_date(string)) => format = <<"date">>
            /\ (~parse_i32(string) /\ ~parse_naive_date(string) /\ parse_from_rfc3339(string))
                  => format = <<"date-time">>
            /\ (~parse_i32(string) /\ ~parse_naive_date(string) /\ ~parse_from_rfc3339(string))
                  => format = <<>>

(* C11 witness: infer ran with detect_format true on a leap day, which the *)
(* date recognizer accepts and the integer one rejects, and called it a    *)
(* date.                                                                   *)
C11_Witness ==
    /\ Inferred
    /\ result.detect_format
    /\ result.input = String("2020-02-29")
    /\ ~parse_i32(result.input.str)
    /\ parse_naive_date(result.input.str)
    /\ result.schema.format = <<"date">>

(* What the sequential branch of infer_array (lib.rs 121-130) followed by the *)
(* tail of infer_array yields on an array, whatever its length.               *)
SequentialBranch(array, flag) ==
    UNION {array_schema(collect([i \in 1..Len(fragments) |->
                                    <<hash(fragments[i]), fragments[i]>>])) :
             fragments \in ElementFragments(array, flag)}

(* The last infer took the parallel branch of infer_array. *)
InferredInParallel == InferredArray /\ Len(result.input.elems) > ParThreshold

(* C12. Threshold equivalence: after infer on an array of more than 8 elements *)
(* (the parallel branch), the "items" of the schema is the "items" the         *)
(* sequential branch produces for the same array, whichever way the parallel   *)
(* element inferences completed.                                               *)
C12_ThresholdEquivalence ==
    InferredInParallel =>
        \A s \in SequentialBranch(result.input.elems, result.detect_format) :
            ~s.panic /\ s.value[1].items = result.schema.items

(* The two branches have the same outcomes: what the parallel branch yields is *)
(* one of the schemas the sequential branch can yield for the same array, and  *)
(* the parallel branch can yield each of those.                                *)
BranchesHaveSameOutcomes ==
    InferredInParallel =>
        LET sequential == SequentialBranch(result.input.elems, result.detect_format)
        IN  /\ Ok([result.schema EXCEPT !.schema = <<>>]) \in sequential
            /\ sequential = _infer(result.input, result.detect_format)

(* Every "anyOf" list of a fragment, at any depth, has two members or more, *)
(* and no two of them are equal once "required" is read as a set.           *)
RECURSIVE WellFormedUnions(_)
WellFormedUnions(f) ==
    /\ f.anyOf # <<>> =>
          LET members == f.anyOf[1]
          IN  /\ Len(members) >= 2
              /\ \A i, j \in 1..Len(members) :
                    i < j => Canonical(members[i]) # Canonical(members[j])
              /\ \A i \in 1..Len(members) : WellFormedUnions(members[i])
    /\ f.items # <<>> => WellFormedUnions(f.items[1])
    /\ f.properties # <<>> =>
          \A i \in 1..Len(f.properties[1]) : WellFormedUnions(f.properties[1][i][2])

(* C13. Union well-formedness: in a schema returned by infer, every "anyOf" *)
(* list at any depth has at least two members, and no two members of it    *)
(* are structurally equal with "required" compared as a set.                *)
C13_UnionWellFormed ==
    Inferred => WellFormedUnions(result.schema)

(* No member of an "anyOf" list of a fragment, at any depth, is itself an *)
(* "anyOf" fragment: each member has a "type" and no "anyOf".             *)
RECURSIVE NoNestedUnions(_)
NoNestedUnions(f) ==
    /\ f.anyOf # <<>> =>
          \A i \in 1..Len(f.anyOf[1]) :
              /\ f.anyOf[1][i].type # <<>>
              /\ f.anyOf[1][i].anyOf = <<>>
              /\ NoNestedUnions(f.anyOf[1][i])
    /\ f.items # <<>> => NoNestedUnions(f.items[1])
    /\ f.properties # <<>> =>
          \A i \in 1..Len(f.properties[1]) : NoNestedUnions(f.properties[1][i][2])

(* The fragments collected while a value is inferred: for an array at any    *)
(* depth, the fragments of its elements (the values of the BTreeMap of       *)
(* infer_array) and the property fragments of those elements (the            *)
(* known_types of try_merge).                                                *)
RECURSIVE CollectedShapes(_, _)
CollectedShapes(data, flag) ==
    CASE data.kind = "array" ->
           LET elements == UNION {Range(fragments) :
                                     fragments \in ElementFragments(data.elems, flag)}
               properties == UNION {{e.properties[1][i][2] : i \in 1..Len(e.properties[1])} :
                                      e \in {x \in elements : x.properties # <<>>}}
           IN  elements \cup properties
               \cup UNION {CollectedShapes(data.elems[i], flag) : i \in 1..Len(data.elems)}
      [] data.kind = "object" ->
           UNION {CollectedShapes(data.members[i][2], flag) : i \in 1..Len(data.members)}
      [] OTHER -> {}

(* C14. No nested unions: in a schema returned by infer no member of an   *)
(* "anyOf" list, at any depth, is itself an "anyOf" fragment, and every   *)
(* fragment collected as the shape of an array element or of a property   *)
(* while the schema was inferred has a "type".                            *)
C14_NoNestedUnions ==
    Inferred =>
        /\ NoNestedUnions(result.schema)
        /\ \A f \in CollectedShapes(result.input, result.detect_format) : f.type # <<>>

(* C14 witness: infer returned an array schema whose "items" is a union with *)
(* an array member whose own "items" is a union again: a union inside a      *)
(* member of a union, one "items" apart.                                     *)
C14_Witness ==
    /\ InferredArray
    /\ result.schema.items # <<>>
    /\ result.schema.items[1].anyOf # <<>>
    /\ \E i \in 1..Len(result.schema.items[1].anyOf[1]) :
          LET member == result.schema.items[1].anyOf[1][i]
          IN  /\ member.type = <<"array">>
              /\ member.items[1].anyOf # <<>>
    /\ Cardinality(CollectedShapes(result.input, result.detect_format)) >= 3

(* A list of keys is in ascending key order. *)
IsAscending(keys) ==
    \A i \in 1..(Len(keys) - 1) : KeyIndex(keys[i]) < KeyIndex(keys[i + 1])

(* In every fragment at any depth, "required" is in ascending key order and *)
(* "properties" is keyed in ascending key order.                            *)
RECURSIVE InKeyOrder(_)
InKeyOrder(f) ==
    /\ f.required # <<>> => IsAscending(f.required[1])
    /\ f.properties # <<>> =>
          /\ IsAscending([i \in 1..Len(f.properties[1]) |-> f.properties[1][i][1]])
          /\ \A i \in 1..Len(f.properties[1]) : InKeyOrder(f.properties[1][i][2])
    /\ f.items # <<>> => InKeyOrder(f.items[1])
    /\ f.anyOf # <<>> => \A i \in 1..Len(f.anyOf[1]) : InKeyOrder(f.anyOf[1][i])

(* C15. Canonical order of required: in every object fragment of a schema     *)
(* returned by infer, those merged by try_merge included, the "required" list *)
(* is in ascending key order and "properties" is keyed in ascending key order. *)
C15_CanonicalOrder ==
    Inferred => InKeyOrder(result.schema)

====
